---------------------------- MODULE Spec2Model ----------------------------
(***************************************************************************)
(* Frame selection of the Sharp Frame Extractor front end (src/src/App.tsx) *)
(*                                                                         *)
(* The state is the part of the App component's React state that           *)
(* getSelectedFrameIndices reads: the analysis result (its frames'         *)
(* sharpness scores, in sampled order), the threshold, the minimum frame   *)
(* distance, the optional maximum number of frames, the selection mode,    *)
(* the per-mode selection settings and the manual selection set.           *)
(*                                                                         *)
(* Sharpness scores are floats in the program; only their order is ever    *)
(* used, so they are naturals here.  Positions are 0-based as in the       *)
(* program: the frame at JavaScript position i is frames[i + 1].           *)
(***************************************************************************)
EXTENDS Integers, Sequences, FiniteSets

VARIABLES
    analysisResult,          \* Null or [frames |-> sequence of sharpness scores]
    threshold,               \* number
    minFrameDistance,        \* number
    maxFrames,               \* << >> (undefined) or << n >>
    selectionMode,           \* "threshold" | "batch" | "bestN" | "topPercentage" | "manual"
    selectionSettings,       \* [batchSize, batchBuffer, bestN, topPercentage]
    manuallySelectedFrames,  \* set of positions
    selectedIndices,         \* the list returned by the last getSelectedFrameIndices()
    pc,                      \* "idle" before the call, "done" after it
    videoPath,               \* "" (null) or the path of the loaded video
    analyzing,               \* BOOLEAN
    exporting,               \* BOOLEAN
    previewFrame,            \* << >> (null) or << position >>
    analysisCalls,           \* the analyze_video invocations that have not returned
    exportCalls,             \* the exportFrames activations that have not finished
    resultOrigin,            \* history: the invocation that produced analysisResult
    lastOutcome,             \* history: how the latest analyze_video invocation ended
    oddToggles,              \* history: positions toggled an odd number of times
                             \* since the manual set was last cleared
    videoDuration,           \* number, in steps of the time range slider (0.1 s)
    startTime,               \* number, in the same steps
    endTime,                 \* number, in the same steps
    metadataCalls,           \* the get_video_metadata invocations that have not returned
    editing,                 \* Null or the focused time field and its text
    loopIndex,               \* i of the batch loop while it runs
    isFirstRun,              \* SettingsDialog prop
    ffmpegPath,              \* SettingsDialog state: text of the FFmpeg path field
    ffprobePath,             \* text of the FFprobe path field
    ffmpegValid,             \* << >> (null) or << BOOLEAN >>
    ffprobeValid,            \* << >> (null) or << BOOLEAN >>
    detecting,               \* BOOLEAN
    settingsCalls,           \* the backend invocations of the dialog that have not returned
    ffmpegChecked,           \* history: the path the FFmpeg flag was last set for
    ffprobeChecked,          \* history: the path the FFprobe flag was last set for
    savedSettings            \* Null or the settings passed to save_settings

sessionVars == << videoPath, analyzing, exporting, previewFrame, analysisCalls,
                  exportCalls, resultOrigin, lastOutcome, oddToggles >>

vars == << analysisResult, threshold, minFrameDistance, maxFrames, selectionMode,
           selectionSettings, manuallySelectedFrames, selectedIndices, pc,
           videoPath, analyzing, exporting, previewFrame, analysisCalls,
           exportCalls, resultOrigin, lastOutcome, oddToggles,
           videoDuration, startTime, endTime, metadataCalls, editing, loopIndex,
           isFirstRun, ffmpegPath, ffprobePath, ffmpegValid, ffprobeValid, detecting,
           settingsCalls, ffmpegChecked, ffprobeChecked, savedSettings >>

timeVars == << videoDuration, startTime, endTime, metadataCalls, editing >>

loopVars == << loopIndex >>

dialogVars == << isFirstRun, ffmpegPath, ffprobePath, ffmpegValid, ffprobeValid,
                detecting, settingsCalls, ffmpegChecked, ffprobeChecked, savedSettings >>

-----------------------------------------------------------------------------
(* Bounds of the model *)

MaxLen == 5            \* longest frame sequence
MaxScore == 2          \* sharpness scores are 0 .. MaxScore
MaxDistance == 3       \* minFrameDistance is 1 .. MaxDistance
MaxBatchSize == 3      \* batchSize is 2 .. MaxBatchSize
MaxBatchBuffer == 2    \* batchBuffer is 0 .. MaxBatchBuffer

-----------------------------------------------------------------------------
(* Values *)

Null == [tag |-> "null"]

Undefined == << >>

Modes == {"threshold", "batch", "bestN", "topPercentage", "manual"}

DefaultSelectionSettings ==
    [batchSize |-> 3, batchBuffer |-> 1, bestN |-> 50, topPercentage |-> 10]

Min(a, b) == IF a < b THEN a ELSE b

Max(a, b) == IF a > b THEN a ELSE b

\* JavaScript truthiness of a number | undefined
Truthy(m) == m # Undefined /\ m[1] # 0

-----------------------------------------------------------------------------
(* Array helpers, as the JavaScript built-ins compute them *)

\* Array.prototype.slice(0, n)
Slice0(s, n) ==
    IF n >= 0 THEN SubSeq(s, 1, Min(n, Len(s)))
              ELSE SubSeq(s, 1, Max(Len(s) + n, 0))

\* Array.prototype.slice(from, to) for 0 <= from <= to <= length
Slice(s, from, to) == SubSeq(s, from + 1, to)

\* Math.max(...s) for a non-empty s
MathMax(s) == CHOOSE m \in {s[k] : k \in 1..Len(s)} : \A k \in 1..Len(s) : s[k] <= m

\* Array.prototype.indexOf: the first 0-based position of v, -1 when absent
IndexOf(s, v) ==
    IF \E k \in 1..Len(s) : s[k] = v
    THEN (CHOOSE k \in 1..Len(s) : s[k] = v /\ \A j \in 1..(k - 1) : s[j] # v) - 1
    ELSE -1

\* .sort((a, b) => a - b) on numbers (the identity: a forgotten final sort)
SortAscendingForgotten(s) == s

\* .sort((a, b) => a - b) on numbers
RECURSIVE SortAscending(_)
SortAscending(s) ==
    IF s = << >> THEN << >>
    ELSE LET rest == SortAscending(SubSeq(s, 1, Len(s) - 1))
             x == s[Len(s)]
             k == Cardinality({j \in 1..Len(rest) : rest[j] <= x})
         IN SubSeq(rest, 1, k) \o << x >> \o SubSeq(rest, k + 1, Len(rest))

\* .sort((a, b) => a.sharpness - b.sharpness): ascending instead of descending
RECURSIVE SortBySharpnessAsc(_)
SortBySharpnessAsc(s) ==
    IF s = << >> THEN << >>
    ELSE LET rest == SortBySharpnessAsc(SubSeq(s, 1, Len(s) - 1))
             x == s[Len(s)]
             k == Cardinality({j \in 1..Len(rest) : rest[j].sharpness <= x.sharpness})
         IN SubSeq(rest, 1, k) \o << x >> \o SubSeq(rest, k + 1, Len(rest))

\* .sort((a, b) => b.sharpness - a.sharpness): descending sharpness; the sort
\* is stable, so equal sharpness keeps the earlier element first
RECURSIVE SortBySharpnessDesc(_)
SortBySharpnessDesc(s) ==
    IF s = << >> THEN << >>
    ELSE LET rest == SortBySharpnessDesc(SubSeq(s, 1, Len(s) - 1))
             x == s[Len(s)]
             k == Cardinality({j \in 1..Len(rest) : rest[j].sharpness >= x.sharpness})
         IN SubSeq(rest, 1, k) \o << x >> \o SubSeq(rest, k + 1, Len(rest))

\* Array.from(set).sort((a, b) => a - b)
RECURSIVE SetToSortedArray(_)
SetToSortedArray(S) ==
    IF S = {} THEN << >>
    ELSE LET m == CHOOSE x \in S : \A y \in S : y <= x
         IN Append(SetToSortedArray(S \ {m}), m)

\* .map(f => f.idx)
MapIdx(s) == [k \in 1..Len(s) |-> s[k].idx]

-----------------------------------------------------------------------------
(* getSelectedFrameIndices, case by case *)

\* frames.map((f, idx) => ({ ...f, idx })) / sharpnessScores.map((score, idx) => ...)
Indexed(frames) == [k \in 1..Len(frames) |-> [sharpness |-> frames[k], idx |-> k - 1]]

\* .filter((f) => f.sharpness > threshold): exclusive comparison
FramesStrictlyAboveThreshold(frames, t) ==
    SelectSeq(Indexed(frames), LAMBDA f : f.sharpness > t)

\* .filter((f) => f.sharpness >= threshold)
FramesAboveThreshold(frames, t) ==
    SelectSeq(Indexed(frames), LAMBDA f : f.sharpness >= t)

\* the distance loop with lastSelected advanced on every candidate
RECURSIVE MinDistanceLoopLastSeen(_, _, _, _)
MinDistanceLoopLastSeen(cands, d, selectedFrames, lastSelected) ==
    IF cands = << >> THEN selectedFrames
    ELSE LET frame == Head(cands)
         IN IF lastSelected = Undefined \/ frame.idx - lastSelected[1] >= d
            THEN MinDistanceLoopLastSeen(Tail(cands), d, Append(selectedFrames, frame),
                                         << frame.idx >>)
            ELSE MinDistanceLoopLastSeen(Tail(cands), d, selectedFrames, << frame.idx >>)

\* the distance loop comparing with > instead of >=
RECURSIVE MinDistanceLoopStrict(_, _, _, _)
MinDistanceLoopStrict(cands, d, selectedFrames, lastSelected) ==
    IF cands = << >> THEN selectedFrames
    ELSE LET frame == Head(cands)
         IN IF lastSelected = Undefined \/ frame.idx - lastSelected[1] > d
            THEN MinDistanceLoopStrict(Tail(cands), d, Append(selectedFrames, frame),
                                       << frame.idx >>)
            ELSE MinDistanceLoopStrict(Tail(cands), d, selectedFrames, lastSelected)

\* the distance loop accepting a gap one short of minFrameDistance
RECURSIVE MinDistanceLoopOffByOne(_, _, _, _)
MinDistanceLoopOffByOne(cands, d, selectedFrames, lastSelected) ==
    IF cands = << >> THEN selectedFrames
    ELSE LET frame == Head(cands)
         IN IF lastSelected = Undefined \/ frame.idx - lastSelected[1] >= d - 1
            THEN MinDistanceLoopOffByOne(Tail(cands), d, Append(selectedFrames, frame),
                                         << frame.idx >>)
            ELSE MinDistanceLoopOffByOne(Tail(cands), d, selectedFrames, lastSelected)

\* for (const frame of framesAboveThreshold) { if (lastSelected === null || ...) }
RECURSIVE MinDistanceLoop(_, _, _, _)
MinDistanceLoop(cands, d, selectedFrames, lastSelected) ==
    IF cands = << >> THEN selectedFrames
    ELSE LET frame == Head(cands)
         IN IF lastSelected = Undefined \/ frame.idx - lastSelected[1] >= d
            THEN MinDistanceLoop(Tail(cands), d, Append(selectedFrames, frame),
                                 << frame.idx >>)
            ELSE MinDistanceLoop(Tail(cands), d, selectedFrames, lastSelected)

\* the distance filter applied whatever minFrameDistance is
MinDistanceFilter(cands, d) == MinDistanceLoop(cands, d, << >>, Undefined)

\* if (minFrameDistance > 1) { ... framesAboveThreshold = selectedFrames }
ApplyMinDistance(cands, d) ==
    IF d > 1 THEN MinDistanceFilter(cands, d) ELSE cands

\* the limit guarded by maxFrames !== undefined instead of by truthiness
MaxFramesLimitDefined(kept, m) ==
    IF m # Undefined /\ Len(kept) > m[1]
    THEN SortAscending(MapIdx(Slice0(SortBySharpnessDesc(kept), m[1])))
    ELSE SortAscending(MapIdx(kept))

\* if (maxFrames && framesAboveThreshold.length > maxFrames) { sort; slice } ... return
MaxFramesLimit(kept, m) ==
    IF Truthy(m) /\ Len(kept) > m[1]
    THEN SortAscending(MapIdx(Slice0(SortBySharpnessDesc(kept), m[1])))
    ELSE SortAscending(MapIdx(kept))

\* case 'threshold' / default
ThresholdCase(frames, t, d, m) ==
    MaxFramesLimit(ApplyMinDistance(FramesAboveThreshold(frames, t), d), m)

\* the threshold-only count with the distance compared by > instead of >=
ThresholdOnlyFrameCountStrict(frames, t, d, m) ==
    LET selectedFrames == MinDistanceLoopStrict(FramesAboveThreshold(frames, t), d,
                                                << >>, Undefined)
    IN IF Truthy(m) /\ Len(selectedFrames) > m[1] THEN m[1] ELSE Len(selectedFrames)

\* getSelectedFrameCount of the threshold-only version: the filter, the
\* distance loop whatever minFrameDistance is, then
\* maxFrames && selectedFrames.length > maxFrames ? maxFrames : selectedFrames.length
ThresholdOnlyFrameCount(frames, t, d, m) ==
    LET selectedFrames == MinDistanceFilter(FramesAboveThreshold(frames, t), d)
    IN IF Truthy(m) /\ Len(selectedFrames) > m[1] THEN m[1] ELSE Len(selectedFrames)

\* the batch loop advancing by batchSize only (the buffer forgotten)
RECURSIVE BatchLoopNoBuffer(_, _, _, _, _)
BatchLoopNoBuffer(scores, batchSize, batchBuffer, i, selected) ==
    IF i < Len(scores)
    THEN LET batchEnd == Min(i + batchSize, Len(scores))
             batchScores == Slice(scores, i, batchEnd)
             maxIdx == IndexOf(batchScores, MathMax(batchScores))
         IN BatchLoopNoBuffer(scores, batchSize, batchBuffer, batchEnd,
                              Append(selected, i + maxIdx))
    ELSE selected

\* the batch loop slicing one position past batchEnd (an inclusive end)
RECURSIVE BatchLoopInclusiveEnd(_, _, _, _, _)
BatchLoopInclusiveEnd(scores, batchSize, batchBuffer, i, selected) ==
    IF i < Len(scores)
    THEN LET batchEnd == Min(i + batchSize, Len(scores))
             batchScores == Slice(scores, i, Min(batchEnd + 1, Len(scores)))
             maxIdx == IndexOf(batchScores, MathMax(batchScores))
         IN BatchLoopInclusiveEnd(scores, batchSize, batchBuffer, batchEnd + batchBuffer,
                                  Append(selected, i + maxIdx))
    ELSE selected

\* while (i < frames.length) { batchEnd; batchScores; maxIdx; push; i = batchEnd + batchBuffer }
RECURSIVE BatchLoop(_, _, _, _, _)
BatchLoop(scores, batchSize, batchBuffer, i, selected) ==
    IF i < Len(scores)
    THEN LET batchEnd == Min(i + batchSize, Len(scores))
             batchScores == Slice(scores, i, batchEnd)
             maxIdx == IndexOf(batchScores, MathMax(batchScores))
         IN BatchLoop(scores, batchSize, batchBuffer, batchEnd + batchBuffer,
                      Append(selected, i + maxIdx))
    ELSE selected

\* case 'batch'
BatchCase(frames, batchSize, batchBuffer) ==
    SortAscending(BatchLoop(frames, batchSize, batchBuffer, 0, << >>))

\* case 'bestN'
BestNCase(frames, n) ==
    SortAscending(MapIdx(Slice0(SortBySharpnessDesc(Indexed(frames)), n)))

\* Math.floor in place of Math.ceil
TopPercentageCountFloor(length, percentage) == (length * percentage) \div 100

\* Math.ceil(length * topPercentage / 100)
TopPercentageCount(length, percentage) == (length * percentage + 99) \div 100

\* case 'topPercentage'
TopPercentageCase(frames, percentage) ==
    SortAscending(MapIdx(Slice0(SortBySharpnessDesc(Indexed(frames)),
                                TopPercentageCount(Len(frames), percentage))))

\* case 'manual'
ManualCase(S) == SetToSortedArray(S)

\* getSelectedFrameIndices as a function of the state it reads
SelectFrom(result, mode, settings, t, d, m, manual) ==
    IF result = Null THEN << >>
    ELSE CASE mode = "manual" -> ManualCase(manual)
           [] mode = "batch" -> BatchCase(result.frames, settings.batchSize,
                                          settings.batchBuffer)
           [] mode = "bestN" -> BestNCase(result.frames, settings.bestN)
           [] mode = "topPercentage" -> TopPercentageCase(result.frames,
                                                          settings.topPercentage)
           [] OTHER -> ThresholdCase(result.frames, t, d, m)

getSelectedFrameIndices ==
    SelectFrom(analysisResult, selectionMode, selectionSettings, threshold,
               minFrameDistance, maxFrames, manuallySelectedFrames)

-----------------------------------------------------------------------------
(* Inputs *)

Scores == 0..MaxScore

RECURSIVE SeqsUpTo(_, _)
SeqsUpTo(S, n) ==
    IF n = 0 THEN {<< >>}
    ELSE LET shorter == SeqsUpTo(S, n - 1)
         IN shorter \cup {Append(s, x) : s \in {q \in shorter : Len(q) = n - 1}, x \in S}

FrameSeqs == SeqsUpTo(Scores, MaxLen)

AnalysisResults == {Null} \cup {[frames |-> f] : f \in FrameSeqs}

Thresholds == 0..(MaxScore + 1)

Distances == 1..MaxDistance

\* parseInt of the text of a number field, the text given as its decimal digits
RECURSIVE ParseInt(_)
ParseInt(digits) ==
    IF digits = << >> THEN 0
    ELSE 10 * ParseInt(SubSeq(digits, 1, Len(digits) - 1)) + digits[Len(digits)]

\* onChange of the Max Frames field:
\* setMaxFrames(e.target.value ? parseInt(e.target.value) : undefined)
OnMaxFramesChange(value) ==
    IF value # << >> THEN << ParseInt(value) >> ELSE Undefined

\* what the Max Frames field can hold: nothing, or the digits of 0 .. MaxLen
MaxFramesTexts == {<< >>} \cup {<< n \div 10, n % 10 >> : n \in 0..MaxLen}

MaxFramesValues == {OnMaxFramesChange(v) : v \in MaxFramesTexts}

Positions == 0..(MaxLen - 1)

PercentageSamples == {1, 10, 20, 21, 25, 26, 33, 34, 40, 50, 51, 60, 67, 75, 80, 81, 99, 100}

\* one mode is chosen, and the state that mode reads is drawn from its range;
\* the state the mode does not read keeps its initial value
DrawnState ==
    \/ /\ selectionMode = "threshold"
       /\ threshold \in Thresholds
       /\ minFrameDistance \in Distances
       /\ maxFrames \in MaxFramesValues
       /\ selectionSettings = DefaultSelectionSettings
       /\ manuallySelectedFrames = {}
    \/ /\ selectionMode = "batch"
       /\ selectionSettings \in
            {[DefaultSelectionSettings EXCEPT !.batchSize = b, !.batchBuffer = u] :
                b \in 2..MaxBatchSize, u \in 0..MaxBatchBuffer}
       /\ threshold = 0 /\ minFrameDistance = 1 /\ maxFrames = Undefined
       /\ manuallySelectedFrames = {}
    \/ /\ selectionMode = "bestN"
       /\ selectionSettings \in
            {[DefaultSelectionSettings EXCEPT !.bestN = n] : n \in 1..(MaxLen + 1)}
       /\ threshold = 0 /\ minFrameDistance = 1 /\ maxFrames = Undefined
       /\ manuallySelectedFrames = {}
    \/ /\ selectionMode = "topPercentage"
       /\ selectionSettings \in
            {[DefaultSelectionSettings EXCEPT !.topPercentage = p] : p \in PercentageSamples}
       /\ threshold = 0 /\ minFrameDistance = 1 /\ maxFrames = Undefined
       /\ manuallySelectedFrames = {}
    \/ /\ selectionMode = "manual"
       /\ manuallySelectedFrames \in SUBSET Positions
       /\ selectionSettings = DefaultSelectionSettings
       /\ threshold = 0 /\ minFrameDistance = 1 /\ maxFrames = Undefined

\* the rest of the component's state around a call: a video is loaded exactly
\* when there is a result, no invocation is in flight, no preview is open
SessionAtRest ==
    /\ videoPath = IF analysisResult = Null THEN "" ELSE "a.mp4"
    /\ analyzing = FALSE
    /\ exporting = FALSE
    /\ previewFrame = Undefined
    /\ analysisCalls = << >>
    /\ exportCalls = << >>
    /\ resultOrigin = IF analysisResult = Null THEN Null
                      ELSE [videoPath |-> "a.mp4", abandoned |-> FALSE,
                            startTime |-> Undefined, endTime |-> Undefined]
    /\ lastOutcome = IF analysisResult = Null THEN "none" ELSE "succeeded"
    /\ oddToggles = manuallySelectedFrames
    /\ videoDuration = 0
    /\ startTime = 0
    /\ endTime = 0
    /\ metadataCalls = << >>
    /\ editing = Null

\* the batch loop has not started
LoopAtRest == loopIndex = 0

\* a SettingsDialog as constructed, outside first-run mode
DialogAtRest ==
    /\ isFirstRun = FALSE
    /\ ffmpegPath = ""
    /\ ffprobePath = ""
    /\ ffmpegValid = Undefined
    /\ ffprobeValid = Undefined
    /\ detecting = FALSE
    /\ settingsCalls = << >>
    /\ ffmpegChecked = Undefined
    /\ ffprobeChecked = Undefined
    /\ savedSettings = Null

Init ==
    /\ analysisResult \in AnalysisResults
    /\ DrawnState
    /\ selectedIndices = << >>
    /\ pc = "idle"
    /\ SessionAtRest /\ LoopAtRest /\ DialogAtRest

-----------------------------------------------------------------------------
(* Operations *)

\* analysisResult.frames after a call that sorted it where it stands
\* (analysisResult.frames.sort(...) without the copying map) in the ranking modes
FramesSortedInPlace(frames, mode) ==
    IF mode \in {"bestN", "topPercentage"}
    THEN LET sorted == SortBySharpnessDesc(Indexed(frames))
         IN [k \in 1..Len(frames) |-> sorted[k].sharpness]
    ELSE frames

\* analysisResult.frames after a call: every array the function sorts or pushes
\* to is a fresh one (made by map, filter, slice, Array.from or a literal), so
\* the frames array keeps its order and its scores
FramesAfterCall(frames, mode) == frames

\* a render calls getSelectedFrameIndices() and uses the list it returns; the
\* function takes no argument and assigns no state, and can be called again
CallGetSelectedFrameIndices ==
    /\ pc \in {"idle", "done"}
    /\ selectedIndices' = getSelectedFrameIndices
    /\ pc' = "done"
    /\ analysisResult' =
          IF analysisResult = Null THEN Null
          ELSE [analysisResult EXCEPT !.frames = FramesAfterCall(@, selectionMode)]
    /\ UNCHANGED << threshold, minFrameDistance, maxFrames,
                    selectionMode, selectionSettings, manuallySelectedFrames >>
    /\ UNCHANGED sessionVars
    /\ UNCHANGED << timeVars, loopVars, dialogVars >>

Next == CallGetSelectedFrameIndices

Spec == Init /\ [][Next]_vars

\* the scenario of the threshold example: the scores 1,5,2,8,3 in every order,
\* every threshold around them, every distance, no maximum
ScenarioScores == << 1, 5, 2, 8, 3 >>

ScenarioFrameSeqs ==
    {f \in [1..Len(ScenarioScores) -> {ScenarioScores[k] : k \in 1..Len(ScenarioScores)}] :
        \A j, k \in 1..Len(ScenarioScores) : j # k => f[j] # f[k]}

InitScenario ==
    /\ analysisResult \in {[frames |-> f] : f \in ScenarioFrameSeqs}
    /\ selectionMode = "threshold"
    /\ threshold \in 0..9
    /\ minFrameDistance \in Distances
    /\ maxFrames = Undefined
    /\ selectionSettings = DefaultSelectionSettings
    /\ manuallySelectedFrames = {}
    /\ selectedIndices = << >>
    /\ pc = "idle"
    /\ SessionAtRest /\ LoopAtRest /\ DialogAtRest

SpecScenario == InitScenario /\ [][Next]_vars

\* the scenario of the batch example: ten sampled frames, the initial batch
\* settings (batchSize 3, batchBuffer 1)
InitBatch10 ==
    /\ analysisResult \in {[frames |-> f] : f \in [1..10 -> 0..2]}
    /\ selectionMode = "batch"
    /\ selectionSettings = DefaultSelectionSettings
    /\ threshold = 0 /\ minFrameDistance = 1 /\ maxFrames = Undefined
    /\ manuallySelectedFrames = {}
    /\ selectedIndices = << >>
    /\ pc = "idle"
    /\ SessionAtRest /\ LoopAtRest /\ DialogAtRest

SpecBatch10 == InitBatch10 /\ [][Next]_vars

-----------------------------------------------------------------------------
(* The session: loading and removing a video, analysing, selecting, exporting *)

MaxSessionLen == 2       \* longest frame sequence the backend returns in a session
MaxAnalysisCalls == 2    \* analyze_video invocations in flight at once
MaxExportCalls == 1      \* exportFrames activations in flight at once

Videos == {"a.mp4", "b.mp4"}

\* what analyze_video can return: the frames and the suggested threshold
SessionResults == {[frames |-> f] : f \in SeqsUpTo(0..1, MaxSessionLen)}

SuggestedThresholds == 0..1

RemoveAt(s, k) == SubSeq(s, 1, k - 1) \o SubSeq(s, k + 1, Len(s))

\* the list a render computes from the state the handlers leave behind
Render ==
    /\ selectedIndices' = SelectFrom(analysisResult', selectionMode', selectionSettings',
                                     threshold', minFrameDistance', maxFrames',
                                     manuallySelectedFrames')
    /\ pc' = "done"
    /\ UNCHANGED << loopVars, dialogVars >>

\* every invocation in flight is marked as abandoned by the user
Abandon(calls) == [k \in 1..Len(calls) |-> [calls[k] EXCEPT !.abandoned = TRUE]]

\* setVideoPath(filePath); setAnalysisResult(null); setManuallySelectedFrames(new Set())
LoadVideo(p) ==
    /\ videoPath' = p
    /\ analysisResult' = Null
    /\ manuallySelectedFrames' = {}
    /\ resultOrigin' = Null
    /\ lastOutcome' = lastOutcome
    /\ oddToggles' = {}
    /\ UNCHANGED << threshold, minFrameDistance, maxFrames, selectionMode,
                    selectionSettings, analyzing, exporting, previewFrame,
                    analysisCalls, exportCalls >>
    /\ Render

\* the drop zone is rendered while no video is loaded; a file is chosen
HandleBrowseFile ==
    /\ videoPath = ""
    /\ \E p \in Videos : LoadVideo(p)
    /\ UNCHANGED timeVars

\* the window's drag-and-drop listener: a video file is dropped, at any time
OnDragDropEvent ==
    /\ \E p \in Videos : LoadVideo(p)
    /\ UNCHANGED timeVars

\* the Remove Video button, rendered while a video is loaded
RemoveVideo ==
    /\ videoPath # ""
    /\ videoPath' = ""
    /\ analysisResult' = Null
    /\ manuallySelectedFrames' = {}
    /\ resultOrigin' = Null
    /\ lastOutcome' = lastOutcome
    /\ oddToggles' = {}
    /\ analysisCalls' = Abandon(analysisCalls)
    /\ UNCHANGED << threshold, minFrameDistance, maxFrames, selectionMode,
                    selectionSettings, analyzing, exporting, previewFrame, exportCalls >>
    /\ editing = Null
    /\ UNCHANGED timeVars
    /\ Render

\* the Reset button, rendered while a video or a result is present
HandleReset ==
    /\ videoPath # "" \/ analysisResult # Null
    /\ videoPath' = ""
    /\ analysisResult' = Null
    /\ threshold' = 0
    /\ maxFrames' = Undefined
    /\ minFrameDistance' = 1
    /\ exporting' = FALSE
    /\ selectionMode' = "threshold"
    /\ selectionSettings' = DefaultSelectionSettings
    /\ manuallySelectedFrames' = {}
    /\ previewFrame' = Undefined
    /\ resultOrigin' = Null
    /\ lastOutcome' = lastOutcome
    /\ oddToggles' = {}
    /\ analysisCalls' = Abandon(analysisCalls)
    /\ UNCHANGED << analyzing, exportCalls >>
    /\ videoDuration' = 0
    /\ startTime' = 0
    /\ endTime' = 0
    /\ editing' = Null
    /\ UNCHANGED metadataCalls
    /\ Render

\* the Analyze button rendered although a result is present
AnalyzeButtonShownWithResult == videoPath # "" /\ ~analyzing

\* the Analyze button rendered although an analysis is running
AnalyzeButtonShownWhileAnalyzing == videoPath # "" /\ analysisResult = Null

\* {videoUrl && ... {!analyzing && !analysisResult && ( ... Analyze button ... )}}
AnalyzeButtonShown == videoPath # "" /\ ~analyzing /\ analysisResult = Null

\* startTime > 0 || endTime > 0 ? value : null, with << >> for null
TimeRangeArg(value, start, end) ==
    IF start > 0 \/ end > 0 THEN << value >> ELSE Undefined

\* analyzeVideo up to its await: setAnalyzing(true); invoke('analyze_video', ...);
\* a click on the button takes the focus from a time field first
AnalyzeVideo ==
    /\ AnalyzeButtonShown
    /\ editing = Null
    /\ videoPath # ""
    /\ Len(analysisCalls) < MaxAnalysisCalls
    /\ analyzing' = TRUE
    /\ analysisCalls' = Append(analysisCalls,
          [videoPath |-> videoPath, abandoned |-> FALSE,
           startTime |-> TimeRangeArg(startTime, startTime, endTime),
           endTime |-> TimeRangeArg(endTime, startTime, endTime)])
    /\ UNCHANGED << analysisResult, threshold, minFrameDistance, maxFrames, selectionMode,
                    selectionSettings, manuallySelectedFrames, videoPath, exporting,
                    previewFrame, exportCalls, resultOrigin, oddToggles >>
    /\ lastOutcome' = "running"
    /\ UNCHANGED timeVars
    /\ Render

\* analyze_video resolves: setAnalysisResult(result); setThreshold(...);
\* setSelectionMode('threshold'); finally setAnalyzing(false)
AnalysisSucceeds(k, result, suggested) ==
    /\ k \in 1..Len(analysisCalls)
    /\ analysisResult' = result
    /\ threshold' = suggested
    /\ selectionMode' = "threshold"
    /\ analyzing' = FALSE
    /\ analysisCalls' = RemoveAt(analysisCalls, k)
    /\ resultOrigin' = analysisCalls[k]
    /\ lastOutcome' = "succeeded"
    /\ UNCHANGED << minFrameDistance, maxFrames, selectionSettings,
                    manuallySelectedFrames, videoPath, exporting, previewFrame,
                    exportCalls, oddToggles >>
    /\ UNCHANGED timeVars
    /\ Render

\* analyze_video rejects and analyzing is left as it is (no finally block)
AnalysisFailsNoFinally(k) ==
    /\ k \in 1..Len(analysisCalls)
    /\ analysisCalls' = RemoveAt(analysisCalls, k)
    /\ UNCHANGED << analysisResult, threshold, minFrameDistance, maxFrames, selectionMode,
                    selectionSettings, manuallySelectedFrames, videoPath, exporting,
                    previewFrame, exportCalls, resultOrigin, oddToggles, analyzing >>
    /\ lastOutcome' = "failed"
    /\ UNCHANGED timeVars
    /\ Render

\* analyze_video rejects: alert; finally setAnalyzing(false)
AnalysisFails(k) ==
    /\ k \in 1..Len(analysisCalls)
    /\ analyzing' = FALSE
    /\ analysisCalls' = RemoveAt(analysisCalls, k)
    /\ UNCHANGED << analysisResult, threshold, minFrameDistance, maxFrames, selectionMode,
                    selectionSettings, manuallySelectedFrames, videoPath, exporting,
                    previewFrame, exportCalls, resultOrigin, oddToggles >>
    /\ lastOutcome' = "failed"
    /\ UNCHANGED timeVars
    /\ Render

AnalysisReturns ==
    \E k \in 1..Len(analysisCalls) :
        \/ \E result \in SessionResults, suggested \in SuggestedThresholds :
              AnalysisSucceeds(k, result, suggested)
        \/ AnalysisFails(k)

\* a selection mode tab, rendered with the results
SetSelectionMode ==
    /\ analysisResult # Null
    /\ \E mode \in Modes :
          /\ mode # selectionMode
          /\ selectionMode' = mode
    /\ UNCHANGED << analysisResult, threshold, minFrameDistance, maxFrames,
                    selectionSettings, manuallySelectedFrames >>
    /\ UNCHANGED sessionVars
    /\ UNCHANGED timeVars
    /\ Render

\* a bar of the chart is clicked: handleFrameClick(data.index)
HandleFrameClick ==
    /\ analysisResult # Null /\ videoPath # ""
    /\ \E i \in 0..(Len(analysisResult.frames) - 1) :
          /\ previewFrame # << i >>
          /\ previewFrame' = << i >>
    /\ UNCHANGED << analysisResult, threshold, minFrameDistance, maxFrames, selectionMode,
                    selectionSettings, manuallySelectedFrames, videoPath, analyzing,
                    exporting, analysisCalls, exportCalls, resultOrigin,
                    lastOutcome, oddToggles >>
    /\ UNCHANGED timeVars
    /\ Render

\* the preview is closed, or its image failed to load: setPreviewFrame(null)
ClosePreview ==
    /\ previewFrame # Undefined
    /\ previewFrame' = Undefined
    /\ UNCHANGED << analysisResult, threshold, minFrameDistance, maxFrames, selectionMode,
                    selectionSettings, manuallySelectedFrames, videoPath, analyzing,
                    exporting, analysisCalls, exportCalls, resultOrigin,
                    lastOutcome, oddToggles >>
    /\ UNCHANGED timeVars
    /\ Render

\* the set after a toggle that only ever adds
ToggledAddOnly(S, frameIndex) == S \cup {frameIndex}

\* newSet.has(frameIndex) ? newSet.delete(frameIndex) : newSet.add(frameIndex)
Toggled(S, frameIndex) ==
    IF frameIndex \in S THEN S \ {frameIndex} ELSE S \cup {frameIndex}

\* the toggle button of the preview, rendered in manual mode:
\* toggleManualSelection(previewFrame); the preview renders the fields of
\* analysisResult.frames[previewFrame], which has to be there
ToggleManualSelection ==
    /\ previewFrame # Undefined /\ analysisResult # Null
    /\ previewFrame[1] \in 0..(Len(analysisResult.frames) - 1)
    /\ selectionMode = "manual"
    /\ manuallySelectedFrames' = Toggled(manuallySelectedFrames, previewFrame[1])
    /\ oddToggles' = (oddToggles \ {previewFrame[1]}) \cup
                        ({previewFrame[1]} \ oddToggles)
    /\ UNCHANGED << analysisResult, threshold, minFrameDistance, maxFrames, selectionMode,
                    selectionSettings, videoPath, analyzing, exporting, previewFrame,
                    analysisCalls, exportCalls, resultOrigin, lastOutcome >>
    /\ UNCHANGED timeVars
    /\ Render

\* "Clear all selections", rendered in manual mode while the set is not empty
ClearManualSelection ==
    /\ analysisResult # Null
    /\ selectionMode = "manual"
    /\ manuallySelectedFrames # {}
    /\ manuallySelectedFrames' = {}
    /\ oddToggles' = {}
    /\ UNCHANGED << analysisResult, threshold, minFrameDistance, maxFrames, selectionMode,
                    selectionSettings, videoPath, analyzing, exporting, previewFrame,
                    analysisCalls, exportCalls, resultOrigin, lastOutcome >>
    /\ UNCHANGED timeVars
    /\ Render

\* analysisResult.frames[idx]: the frame object at a position (its position
\* stands for its identity), undefined (Null) outside the array
FrameAt(frames, idx) ==
    IF idx \in 0..(Len(frames) - 1)
    THEN [position |-> idx, sharpness |-> frames[idx + 1]]
    ELSE Null

\* the frames of every position up to the last selected one
CustomResultFramesUpToLast(frames, indices) ==
    IF indices = << >> THEN << >>
    ELSE [k \in 1..(indices[Len(indices)] + 1) |-> FrameAt(frames, k - 1)]

\* selectedIndices.map(idx => analysisResult.frames[idx])
CustomResultFrames(frames, indices) ==
    [k \in 1..Len(indices) |-> FrameAt(frames, indices[k])]

\* the options passed along: threshold 0, no max_frames, min_frame_distance 1
ExportOptions ==
    [format |-> "png", threshold |-> 0, max_frames |-> Undefined, min_frame_distance |-> 1]

\* the Export button: rendered with the results,
\* disabled={exporting || getSelectedFrameCount() === 0}
ExportButtonEnabled ==
    analysisResult # Null /\ ~exporting /\ Len(getSelectedFrameIndices) # 0

\* exportFrames up to its first await: the guard, setExporting(true) and the
\* directory dialog; what follows the dialog reads the values of this render
ExportFramesUpTo(cap) ==
    /\ ExportButtonEnabled
    /\ videoPath # "" /\ analysisResult # Null
    /\ Len(exportCalls) < cap
    /\ exporting' = TRUE
    /\ exportCalls' = Append(exportCalls,
          [at |-> "dialog",
           frames |-> CustomResultFrames(analysisResult.frames, getSelectedFrameIndices),
           options |-> ExportOptions])
    /\ UNCHANGED << analysisResult, threshold, minFrameDistance, maxFrames, selectionMode,
                    selectionSettings, manuallySelectedFrames, videoPath, analyzing,
                    previewFrame, analysisCalls, resultOrigin,
                    lastOutcome, oddToggles >>
    /\ UNCHANGED timeVars
    /\ Render

ExportFrames == ExportFramesUpTo(MaxExportCalls)

\* the directory dialog is dismissed: setExporting(false); return (and finally)
ExportDialogDismissed ==
    /\ \E k \in 1..Len(exportCalls) :
          /\ exportCalls[k].at = "dialog"
          /\ exportCalls' = RemoveAt(exportCalls, k)
    /\ exporting' = FALSE
    /\ UNCHANGED << analysisResult, threshold, minFrameDistance, maxFrames, selectionMode,
                    selectionSettings, manuallySelectedFrames, videoPath, analyzing,
                    previewFrame, analysisCalls, resultOrigin,
                    lastOutcome, oddToggles >>
    /\ UNCHANGED timeVars
    /\ Render

\* a directory is chosen: invoke('export_frames', { videoPath, outputDir,
\* analysisResult: customResult, options })
InvokeExportFrames ==
    /\ \E k \in 1..Len(exportCalls) :
          /\ exportCalls[k].at = "dialog"
          /\ exportCalls' = [exportCalls EXCEPT ![k].at = "export_frames"]
    /\ UNCHANGED << analysisResult, threshold, minFrameDistance, maxFrames, selectionMode,
                    selectionSettings, manuallySelectedFrames, videoPath, analyzing,
                    exporting, previewFrame, analysisCalls, resultOrigin,
                    lastOutcome, oddToggles >>
    /\ UNCHANGED timeVars
    /\ Render

\* export_frames resolves or rejects: alert; finally setExporting(false)
ExportReturns ==
    /\ \E k \in 1..Len(exportCalls) :
          /\ exportCalls[k].at = "export_frames"
          /\ exportCalls' = RemoveAt(exportCalls, k)
    /\ exporting' = FALSE
    /\ UNCHANGED << analysisResult, threshold, minFrameDistance, maxFrames, selectionMode,
                    selectionSettings, manuallySelectedFrames, videoPath, analyzing,
                    previewFrame, analysisCalls, resultOrigin,
                    lastOutcome, oddToggles >>
    /\ UNCHANGED timeVars
    /\ Render

\* a freshly mounted component
InitSession ==
    /\ analysisResult = Null
    /\ threshold = 0
    /\ minFrameDistance = 1
    /\ maxFrames = Undefined
    /\ selectionMode = "threshold"
    /\ selectionSettings = DefaultSelectionSettings
    /\ manuallySelectedFrames = {}
    /\ selectedIndices = << >>
    /\ pc = "done"
    /\ SessionAtRest /\ LoopAtRest /\ DialogAtRest

NextSession ==
    \/ HandleBrowseFile
    \/ OnDragDropEvent
    \/ RemoveVideo
    \/ HandleReset
    \/ AnalyzeVideo
    \/ AnalysisReturns
    \/ SetSelectionMode
    \/ HandleFrameClick
    \/ ClosePreview
    \/ ToggleManualSelection
    \/ ClearManualSelection
    \/ ExportFrames
    \/ ExportDialogDismissed
    \/ InvokeExportFrames
    \/ ExportReturns

SpecSession == InitSession /\ [][NextSession]_vars

\* the analysis lifecycle alone, with the backend answering every
\* analyze_video invocation sooner or later
NextAnalysis ==
    \/ HandleBrowseFile
    \/ OnDragDropEvent
    \/ RemoveVideo
    \/ HandleReset
    \/ AnalyzeVideo
    \/ AnalysisReturns

SpecAnalysis == InitSession /\ [][NextAnalysis]_vars /\ WF_vars(AnalysisReturns)

MaxConcurrentExports == 2   \* exportFrames activations in flight at once, threshold mode

\* loading, analysing, exporting and resetting, in threshold mode
NextExports ==
    \/ HandleBrowseFile
    \/ HandleReset
    \/ AnalyzeVideo
    \/ AnalysisReturns
    \/ ExportFramesUpTo(MaxConcurrentExports)
    \/ ExportDialogDismissed
    \/ InvokeExportFrames
    \/ ExportReturns

SpecExports == InitSession /\ [][NextExports]_vars

-----------------------------------------------------------------------------
(* The time range: video metadata, the sliders and number fields, and the
   range analyzeVideo passes.  Times are counted in slider steps of 0.1 s. *)

MaxDuration == 3         \* duration of the longer video, in slider steps
MaxMetadataCalls == 1    \* get_video_metadata invocations in flight at once

\* info.duration as the backend reports it for a video
DurationOf(p) == IF p = "a.mp4" THEN MaxDuration ELSE MaxDuration - 1

\* what a number field can hold: a number, or text that parseFloat turns
\* into NaN (<< >>)
TimeTexts == {<< v >> : v \in (0 - 1)..(MaxDuration + 1)} \cup {Undefined}

\* invoke('get_video_metadata', { videoPath: filePath }) is issued
GetVideoMetadata(p) ==
    /\ Len(metadataCalls) < MaxMetadataCalls
    /\ metadataCalls' = Append(metadataCalls, p)
    /\ UNCHANGED << videoDuration, startTime, endTime, editing >>

\* handleBrowseFile with its metadata request
HandleBrowseFileMetadata ==
    /\ videoPath = ""
    /\ \E p \in Videos : LoadVideo(p) /\ GetVideoMetadata(p)

\* the drop listener with its metadata request
OnDragDropEventMetadata ==
    \E p \in Videos : LoadVideo(p) /\ GetVideoMetadata(p)

\* get_video_metadata resolves: setVideoDuration(info.duration); setStartTime(0);
\* setEndTime(info.duration)
MetadataResolves(k) ==
    /\ videoDuration' = DurationOf(metadataCalls[k])
    /\ startTime' = 0
    /\ endTime' = DurationOf(metadataCalls[k])
    /\ metadataCalls' = RemoveAt(metadataCalls, k)
    /\ editing' = IF editing = Null THEN Null
                  ELSE [editing EXCEPT !.text =
                           IF editing.field = "start" THEN << 0 >>
                           ELSE << DurationOf(metadataCalls[k]) >>]

\* get_video_metadata rejects: console.error only
MetadataRejects(k) ==
    /\ metadataCalls' = RemoveAt(metadataCalls, k)
    /\ UNCHANGED << videoDuration, startTime, endTime, editing >>

MetadataReturns ==
    /\ \E k \in 1..Len(metadataCalls) : MetadataResolves(k) \/ MetadataRejects(k)
    /\ UNCHANGED << analysisResult, threshold, minFrameDistance, maxFrames, selectionMode,
                    selectionSettings, manuallySelectedFrames >>
    /\ UNCHANGED sessionVars
    /\ Render

\* {videoUrl && ... !analyzing && !analysisResult && ... videoDuration > 0 ? (sliders, fields)
TimeRangeShown ==
    videoPath # "" /\ ~analyzing /\ analysisResult = Null /\ videoDuration > 0

\* what no handler of the time range touches
TimeRangeFrame ==
    /\ UNCHANGED << analysisResult, threshold, minFrameDistance, maxFrames, selectionMode,
                    selectionSettings, manuallySelectedFrames >>
    /\ UNCHANGED sessionVars
    /\ UNCHANGED << videoDuration, metadataCalls >>
    /\ Render

\* start slider onChange: if (val < endTime) setStartTime(val); grabbing the
\* slider takes the focus from a number field
StartSliderChange ==
    /\ TimeRangeShown
    /\ editing = Null
    /\ \E val \in 0..videoDuration :
          startTime' = IF val < endTime THEN val ELSE startTime
    /\ UNCHANGED << endTime, editing >>
    /\ TimeRangeFrame

\* end slider onChange: if (val > startTime) setEndTime(val)
EndSliderChange ==
    /\ TimeRangeShown
    /\ editing = Null
    /\ \E val \in 0..videoDuration :
          endTime' = IF val > startTime THEN val ELSE endTime
    /\ UNCHANGED << startTime, editing >>
    /\ TimeRangeFrame

\* Start Time field onChange: if (!isNaN(val)) setStartTime(val)
StartInputChange ==
    /\ TimeRangeShown
    /\ IF editing = Null THEN TRUE ELSE editing.field = "start"
    /\ \E text \in TimeTexts :
          /\ startTime' = IF text # Undefined THEN text[1] ELSE startTime
          /\ editing' = [field |-> "start", text |-> text]
    /\ UNCHANGED endTime
    /\ TimeRangeFrame

\* Start Time field onBlur: the value setStartTime is called with, or the
\* start time as it is when no branch applies
StartBlur(val, start, end, duration) ==
    IF val = Undefined \/ val[1] < 0 THEN 0
    ELSE IF val[1] >= end THEN Max(0, end - 1)
    ELSE IF val[1] > duration THEN Max(0, duration - 1)
    ELSE start

StartInputBlur ==
    /\ IF editing = Null THEN FALSE ELSE editing.field = "start"
    /\ startTime' = StartBlur(editing.text, startTime, endTime, videoDuration)
    /\ editing' = Null
    /\ UNCHANGED endTime
    /\ TimeRangeFrame

\* End Time field onChange: if (!isNaN(val)) setEndTime(val)
EndInputChange ==
    /\ TimeRangeShown
    /\ IF editing = Null THEN TRUE ELSE editing.field = "end"
    /\ \E text \in TimeTexts :
          /\ endTime' = IF text # Undefined THEN text[1] ELSE endTime
          /\ editing' = [field |-> "end", text |-> text]
    /\ UNCHANGED startTime
    /\ TimeRangeFrame

\* End Time field onBlur
EndBlur(val, start, end, duration) ==
    IF val = Undefined \/ val[1] > duration THEN duration
    ELSE IF val[1] <= start THEN Min(duration, start + 1)
    ELSE IF val[1] < 0 THEN duration
    ELSE end

EndInputBlur ==
    /\ IF editing = Null THEN FALSE ELSE editing.field = "end"
    /\ endTime' = EndBlur(editing.text, startTime, endTime, videoDuration)
    /\ editing' = Null
    /\ UNCHANGED startTime
    /\ TimeRangeFrame

NextTimeRange ==
    \/ HandleBrowseFileMetadata
    \/ OnDragDropEventMetadata
    \/ MetadataReturns
    \/ RemoveVideo
    \/ HandleReset
    \/ StartSliderChange
    \/ EndSliderChange
    \/ StartInputChange
    \/ StartInputBlur
    \/ EndInputChange
    \/ EndInputBlur
    \/ AnalyzeVideo
    \/ AnalysisReturns

SpecTimeRange == InitSession /\ [][NextTimeRange]_vars

-----------------------------------------------------------------------------
(* The settings dialog (SettingsDialog), while it is open *)

MaxSettingsCalls == 2    \* backend invocations of the dialog in flight at once

GoodPath == "/usr/bin/ffmpeg"
BadPath == "/tmp/notes.txt"

\* what a path field can hold
PathTexts == {"", GoodPath, BadPath}

\* the answer of validate_ffmpeg_path for a path
ValidateFfmpegPath(path) == path = GoodPath

\* the settings get_settings can return: << ffmpeg_path, ffprobe_path >>,
\* "" for null
StoredSettings == {<< "", "" >>, << GoodPath, GoodPath >>, << BadPath, GoodPath >>}

\* what detect_ffmpeg can return: << ffmpeg, ffprobe >>, "" for null
Detections == {<< "", "" >>, << GoodPath, "" >>, << GoodPath, GoodPath >>}

\* x || null for a string
OrNull(text) == IF text = "" THEN Undefined ELSE << text >>

SettingsCall(op, path, next) == [op |-> op, path |-> path, next |-> next]

\* what no handler of the dialog touches
DialogFrame ==
    /\ UNCHANGED << analysisResult, threshold, minFrameDistance, maxFrames, selectionMode,
                    selectionSettings, manuallySelectedFrames, selectedIndices, pc >>
    /\ UNCHANGED << sessionVars, timeVars, loopVars >>
    /\ UNCHANGED isFirstRun

\* the dialog has just opened: useEffect has called loadSettings, whose
\* get_settings invocation is in flight
InitSettings ==
    /\ analysisResult = Null
    /\ threshold = 0
    /\ minFrameDistance = 1
    /\ maxFrames = Undefined
    /\ selectionMode = "threshold"
    /\ selectionSettings = DefaultSelectionSettings
    /\ manuallySelectedFrames = {}
    /\ selectedIndices = << >>
    /\ pc = "done"
    /\ SessionAtRest /\ LoopAtRest
    /\ isFirstRun \in BOOLEAN
    /\ ffmpegPath = ""
    /\ ffprobePath = ""
    /\ ffmpegValid = Undefined
    /\ ffprobeValid = Undefined
    /\ detecting = FALSE
    /\ settingsCalls = << SettingsCall("get_settings", "", "") >>
    /\ ffmpegChecked = Undefined
    /\ ffprobeChecked = Undefined
    /\ savedSettings = Null

\* loadSettings after get_settings resolved: both paths are set, then the
\* loaded paths are validated one after the other
LoadSettingsLoaded(k) ==
    /\ settingsCalls[k].op = "get_settings"
    /\ \E loaded \in StoredSettings :
          /\ ffmpegPath' = loaded[1]
          /\ ffprobePath' = loaded[2]
          /\ settingsCalls' =
                IF loaded[1] # ""
                THEN [settingsCalls EXCEPT ![k] = SettingsCall("load_ffmpeg", loaded[1], loaded[2])]
                ELSE IF loaded[2] # ""
                THEN [settingsCalls EXCEPT ![k] = SettingsCall("load_ffprobe", loaded[2], "")]
                ELSE RemoveAt(settingsCalls, k)
    /\ UNCHANGED << ffmpegValid, ffprobeValid, detecting, ffmpegChecked, ffprobeChecked,
                    savedSettings >>

\* loadSettings: validate_ffmpeg_path for loaded.ffmpeg_path resolved
LoadSettingsFfmpegValidated(k) ==
    /\ settingsCalls[k].op = "load_ffmpeg"
    /\ ffmpegValid' = << ValidateFfmpegPath(settingsCalls[k].path) >>
    /\ ffmpegChecked' = << settingsCalls[k].path >>
    /\ settingsCalls' =
          IF settingsCalls[k].next # ""
          THEN [settingsCalls EXCEPT ![k] = SettingsCall("load_ffprobe", settingsCalls[k].next, "")]
          ELSE RemoveAt(settingsCalls, k)
    /\ UNCHANGED << ffmpegPath, ffprobePath, ffprobeValid, detecting, ffprobeChecked,
                    savedSettings >>

\* loadSettings: validate_ffmpeg_path for loaded.ffprobe_path resolved
LoadSettingsFfprobeValidated(k) ==
    /\ settingsCalls[k].op = "load_ffprobe"
    /\ ffprobeValid' = << ValidateFfmpegPath(settingsCalls[k].path) >>
    /\ ffprobeChecked' = << settingsCalls[k].path >>
    /\ settingsCalls' = RemoveAt(settingsCalls, k)
    /\ UNCHANGED << ffmpegPath, ffprobePath, ffmpegValid, detecting, ffmpegChecked,
                    savedSettings >>

\* loadSettings: an invocation rejected; the catch block logs
LoadSettingsFails(k) ==
    /\ settingsCalls[k].op \in {"get_settings", "load_ffmpeg", "load_ffprobe"}
    /\ settingsCalls' = RemoveAt(settingsCalls, k)
    /\ UNCHANGED << ffmpegPath, ffprobePath, ffmpegValid, ffprobeValid, detecting,
                    ffmpegChecked, ffprobeChecked, savedSettings >>

LoadSettingsReturns ==
    /\ \E k \in 1..Len(settingsCalls) :
          \/ LoadSettingsLoaded(k)
          \/ LoadSettingsFfmpegValidated(k)
          \/ LoadSettingsFfprobeValidated(k)
          \/ LoadSettingsFails(k)
    /\ DialogFrame

\* FFmpeg path input: onChange={(e) => setFfmpegPath(e.target.value)}
TypeFfmpegPath ==
    /\ \E text \in PathTexts : ffmpegPath' = text
    /\ UNCHANGED << ffprobePath, ffmpegValid, ffprobeValid, detecting, settingsCalls,
                    ffmpegChecked, ffprobeChecked, savedSettings >>
    /\ DialogFrame

\* FFprobe path input: onChange={(e) => setFfprobePath(e.target.value)}
TypeFfprobePath ==
    /\ \E text \in PathTexts : ffprobePath' = text
    /\ UNCHANGED << ffmpegPath, ffmpegValid, ffprobeValid, detecting, settingsCalls,
                    ffmpegChecked, ffprobeChecked, savedSettings >>
    /\ DialogFrame

\* handleBrowseFFmpeg up to its validate_ffmpeg_path invocation: a file was
\* selected in the dialog
HandleBrowseFFmpeg ==
    /\ Len(settingsCalls) < MaxSettingsCalls
    /\ \E path \in PathTexts \ {""} :
          /\ ffmpegPath' = path
          /\ settingsCalls' = Append(settingsCalls, SettingsCall("validate_ffmpeg", path, ""))
    /\ UNCHANGED << ffprobePath, ffmpegValid, ffprobeValid, detecting,
                    ffmpegChecked, ffprobeChecked, savedSettings >>
    /\ DialogFrame

\* handleBrowseFFprobe up to its validate_ffmpeg_path invocation
HandleBrowseFFprobe ==
    /\ Len(settingsCalls) < MaxSettingsCalls
    /\ \E path \in PathTexts \ {""} :
          /\ ffprobePath' = path
          /\ settingsCalls' = Append(settingsCalls, SettingsCall("validate_ffprobe", path, ""))
    /\ UNCHANGED << ffmpegPath, ffmpegValid, ffprobeValid, detecting,
                    ffmpegChecked, ffprobeChecked, savedSettings >>
    /\ DialogFrame

\* the rest of handleBrowseFFmpeg / handleBrowseFFprobe: setFfmpegValid(valid)
\* resp. setFfprobeValid(valid); a rejected invocation sets nothing
ValidationReturns ==
    /\ \E k \in 1..Len(settingsCalls) :
          /\ settingsCalls[k].op \in {"validate_ffmpeg", "validate_ffprobe"}
          /\ settingsCalls' = RemoveAt(settingsCalls, k)
          /\ \/ /\ settingsCalls[k].op = "validate_ffmpeg"
                /\ ffmpegValid' = << ValidateFfmpegPath(settingsCalls[k].path) >>
                /\ ffmpegChecked' = << settingsCalls[k].path >>
                /\ UNCHANGED << ffprobeValid, ffprobeChecked >>
             \/ /\ settingsCalls[k].op = "validate_ffprobe"
                /\ ffprobeValid' = << ValidateFfmpegPath(settingsCalls[k].path) >>
                /\ ffprobeChecked' = << settingsCalls[k].path >>
                /\ UNCHANGED << ffmpegValid, ffmpegChecked >>
             \/ UNCHANGED << ffmpegValid, ffmpegChecked, ffprobeValid, ffprobeChecked >>
    /\ UNCHANGED << ffmpegPath, ffprobePath, detecting, savedSettings >>
    /\ DialogFrame

\* handleDetect up to its detect_ffmpeg invocation; the button is disabled
\* while detecting
HandleDetect ==
    /\ ~detecting
    /\ Len(settingsCalls) < MaxSettingsCalls
    /\ detecting' = TRUE
    /\ settingsCalls' = Append(settingsCalls, SettingsCall("detect_ffmpeg", "", ""))
    /\ UNCHANGED << ffmpegPath, ffprobePath, ffmpegValid, ffprobeValid,
                    ffmpegChecked, ffprobeChecked, savedSettings >>
    /\ DialogFrame

\* the rest of handleDetect: what was detected is set and marked valid; the
\* finally block clears detecting, also after a rejection
DetectReturns ==
    /\ \E k \in 1..Len(settingsCalls) :
          /\ settingsCalls[k].op = "detect_ffmpeg"
          /\ settingsCalls' = RemoveAt(settingsCalls, k)
          /\ \/ \E detected \in Detections :
                   /\ ffmpegPath' = IF detected[1] # "" THEN detected[1] ELSE ffmpegPath
                   /\ ffmpegValid' = IF detected[1] # "" THEN << TRUE >> ELSE ffmpegValid
                   /\ ffmpegChecked' = IF detected[1] # "" THEN << detected[1] >>
                                       ELSE ffmpegChecked
                   /\ ffprobePath' = IF detected[2] # "" THEN detected[2] ELSE ffprobePath
                   /\ ffprobeValid' = IF detected[2] # "" THEN << TRUE >> ELSE ffprobeValid
                   /\ ffprobeChecked' = IF detected[2] # "" THEN << detected[2] >>
                                        ELSE ffprobeChecked
             \/ UNCHANGED << ffmpegPath, ffmpegValid, ffmpegChecked,
                             ffprobePath, ffprobeValid, ffprobeChecked >>
    /\ detecting' = FALSE
    /\ UNCHANGED savedSettings
    /\ DialogFrame

\* !ffmpegValid for a boolean | null
FlagSet(valid) == valid = << TRUE >>

\* disabled={isFirstRun && (!ffmpegValid || !ffprobeValid)}
SaveEnabled == ~(isFirstRun /\ (~FlagSet(ffmpegValid) \/ ~FlagSet(ffprobeValid)))

\* handleSave: save_settings is invoked with the paths the fields hold
HandleSave ==
    /\ SaveEnabled
    /\ savedSettings' = [ffmpeg_path |-> OrNull(ffmpegPath),
                         ffprobe_path |-> OrNull(ffprobePath),
                         first_run |-> FALSE]
    /\ UNCHANGED << ffmpegPath, ffprobePath, ffmpegValid, ffprobeValid, detecting,
                    settingsCalls, ffmpegChecked, ffprobeChecked >>
    /\ DialogFrame

NextSettings ==
    \/ LoadSettingsReturns
    \/ TypeFfmpegPath
    \/ TypeFfprobePath
    \/ HandleBrowseFFmpeg
    \/ HandleBrowseFFprobe
    \/ ValidationReturns
    \/ HandleDetect
    \/ DetectReturns
    \/ HandleSave

SpecSettings == InitSettings /\ [][NextSettings]_vars

-----------------------------------------------------------------------------
(* The batch loop of getSelectedFrameIndices, one iteration at a time *)

\* the loop continuing at batchEnd, the buffer forgotten
NextBatchStartNoBuffer(i, batchSize, batchBuffer, length) ==
    Min(i + batchSize, length)

\* batchEnd = Math.min(i + batchSize, frames.length); ...; i = batchEnd + batchBuffer
NextBatchStart(i, batchSize, batchBuffer, length) ==
    Min(i + batchSize, length) + batchBuffer

\* case 'batch' is entered: selected = [], i = 0
InitBatchLoop ==
    /\ analysisResult \in {[frames |-> f] : f \in SeqsUpTo(0..1, MaxLen)}
    /\ selectionMode = "batch"
    /\ selectionSettings \in
         {[DefaultSelectionSettings EXCEPT !.batchSize = b, !.batchBuffer = u] :
             b \in 1..MaxBatchSize, u \in 0..MaxBatchBuffer}
    /\ threshold = 0 /\ minFrameDistance = 1 /\ maxFrames = Undefined
    /\ manuallySelectedFrames = {}
    /\ selectedIndices = << >>
    /\ pc = "loop"
    /\ loopIndex = 0
    /\ SessionAtRest /\ DialogAtRest

\* one pass through the body of while (i < analysisResult.frames.length)
BatchLoopIteration ==
    /\ pc = "loop"
    /\ loopIndex < Len(analysisResult.frames)
    /\ LET batchEnd == Min(loopIndex + selectionSettings.batchSize,
                           Len(analysisResult.frames))
           batchScores == Slice(analysisResult.frames, loopIndex, batchEnd)
           maxIdx == IndexOf(batchScores, MathMax(batchScores))
       IN selectedIndices' = Append(selectedIndices, loopIndex + maxIdx)
    /\ loopIndex' = NextBatchStart(loopIndex, selectionSettings.batchSize,
                                   selectionSettings.batchBuffer,
                                   Len(analysisResult.frames))
    /\ UNCHANGED << analysisResult, threshold, minFrameDistance, maxFrames, selectionMode,
                    selectionSettings, manuallySelectedFrames, pc >>
    /\ UNCHANGED << sessionVars, timeVars, dialogVars >>

\* the loop condition fails: return selected.sort((a, b) => a - b)
BatchLoopExit ==
    /\ pc = "loop"
    /\ ~(loopIndex < Len(analysisResult.frames))
    /\ selectedIndices' = SortAscending(selectedIndices)
    /\ pc' = "done"
    /\ UNCHANGED << analysisResult, threshold, minFrameDistance, maxFrames, selectionMode,
                    selectionSettings, manuallySelectedFrames, loopIndex >>
    /\ UNCHANGED << sessionVars, timeVars, dialogVars >>

NextBatchLoop == BatchLoopIteration \/ BatchLoopExit

\* the function runs to completion once called: the loop is synchronous code
SpecBatchLoop == InitBatchLoop /\ [][NextBatchLoop]_vars /\ WF_vars(NextBatchLoop)

-----------------------------------------------------------------------------
(* The Number of Frames field of the bestN mode *)

MaxDigits == 2         \* longest digit string typed into the field

\* what the field holds after an edit: an optional minus sign and decimal
\* digits; with no digit the text is not a number
BestNTexts == {[sign |-> g, digits |-> d] : g \in {"", "-"}, d \in SeqsUpTo(0..3, MaxDigits)}

\* parseInt(e.target.value): << >> stands for NaN
ParseIntSigned(text) ==
    IF text.digits = << >> THEN Undefined
    ELSE IF text.sign = "-" THEN << 0 - ParseInt(text.digits) >>
    ELSE << ParseInt(text.digits) >>

\* parseInt(e.target.value) || 1
BestNFromText(text) ==
    IF Truthy(ParseIntSigned(text)) THEN ParseIntSigned(text)[1] ELSE 1

\* the results are shown and the Best N tab is chosen
InitBestNInput ==
    /\ analysisResult \in SessionResults
    /\ threshold = 0
    /\ minFrameDistance = 1
    /\ maxFrames = Undefined
    /\ selectionMode = "bestN"
    /\ selectionSettings = DefaultSelectionSettings
    /\ manuallySelectedFrames = {}
    /\ selectedIndices = getSelectedFrameIndices
    /\ pc = "done"
    /\ SessionAtRest /\ LoopAtRest /\ DialogAtRest

\* onChange of the field:
\* setSelectionSettings({ ...selectionSettings, bestN: parseInt(e.target.value) || 1 })
OnBestNChange ==
    /\ analysisResult # Null
    /\ selectionMode = "bestN"
    /\ \E text \in BestNTexts :
          selectionSettings' = [selectionSettings EXCEPT !.bestN = BestNFromText(text)]
    /\ UNCHANGED << analysisResult, threshold, minFrameDistance, maxFrames, selectionMode,
                    manuallySelectedFrames >>
    /\ UNCHANGED << sessionVars, timeVars >>
    /\ Render

NextBestNInput == OnBestNChange

SpecBestNInput == InitBestNInput /\ [][NextBestNInput]_vars

-----------------------------------------------------------------------------
(* Vocabulary of the properties *)

Range(s) == {s[k] : k \in 1..Len(s)}

StrictlyIncreasing(s) == \A j \in 1..(Len(s) - 1) : s[j] < s[j + 1]

\* the sharpness of the frame at 0-based position i of the analysis result
ScoreAt(i) == analysisResult.frames[i + 1]

NumFrames == Len(analysisResult.frames)

Called(mode) == pc = "done" /\ selectionMode = mode /\ analysisResult # Null

\* the positions whose score reaches the threshold
CandidatePositions == {i \in 0..(NumFrames - 1) : ScoreAt(i) >= threshold}

\* the positions left after the threshold and distance steps, before the limit
KeptPositions ==
    Range(MapIdx(ApplyMinDistance(FramesAboveThreshold(analysisResult.frames, threshold),
                                  minFrameDistance)))

-----------------------------------------------------------------------------
(* C1: in every mode the returned list is strictly increasing, hence has no
   duplicate index *)
C1_StrictlyIncreasing ==
    pc = "done" =>
        /\ StrictlyIncreasing(selectedIndices)
        /\ Cardinality(Range(selectedIndices)) = Len(selectedIndices)

\* a limited threshold selection whose sharpness order differs from its index order
C1_Witness ==
    /\ Called("threshold")
    /\ Truthy(maxFrames)
    /\ Cardinality(KeptPositions) > maxFrames[1]
    /\ \E j \in 1..(Len(selectedIndices) - 1) :
          ScoreAt(selectedIndices[j]) < ScoreAt(selectedIndices[j + 1])

(* C2: threshold mode, distance 1, no maximum: position i is selected iff
   score[i] >= threshold (inclusive) *)
C2_ThresholdIff ==
    (Called("threshold") /\ minFrameDistance = 1 /\ maxFrames = Undefined) =>
        \A i \in 0..(NumFrames - 1) :
            (i \in Range(selectedIndices)) <=> (ScoreAt(i) >= threshold)

\* a frame exactly at the threshold is selected, a frame below it is not
C2_Witness ==
    /\ Called("threshold") /\ minFrameDistance = 1 /\ maxFrames = Undefined
    /\ \E i \in Range(selectedIndices) : ScoreAt(i) = threshold
    /\ \E i \in 0..(NumFrames - 1) : ScoreAt(i) < threshold /\ i \notin Range(selectedIndices)

(* C3: threshold mode, distance > 1: without a limit the selection is the greedy
   scan (a candidate is kept iff it is the first or lies at least minFrameDistance
   after the last kept one); with or without a limit, consecutive selected
   indices differ by at least minFrameDistance *)
C3_MinDistance ==
    (Called("threshold") /\ minFrameDistance > 1) =>
        /\ ~Truthy(maxFrames) =>
              /\ Range(selectedIndices) \subseteq CandidatePositions
              /\ \A c \in CandidatePositions :
                    (c \in Range(selectedIndices)) <=>
                        (\A k \in Range(selectedIndices) :
                            k < c => c - k >= minFrameDistance)
        /\ \A j \in 1..(Len(selectedIndices) - 1) :
              selectedIndices[j + 1] - selectedIndices[j] >= minFrameDistance

\* a candidate was dropped by the distance scan, the limit then cut the kept
\* frames, and at least two indices remain
C3_Witness ==
    /\ Called("threshold") /\ minFrameDistance > 1
    /\ Truthy(maxFrames)
    /\ Cardinality(KeptPositions) > maxFrames[1]
    /\ KeptPositions # CandidatePositions
    /\ Len(selectedIndices) >= 2

(* C4: scores [1,5,2,8,3] with threshold 4 and no maximum give {1,3} at
   distance 1 and {1} at distance 3 *)
C4_Scenario ==
    (Called("threshold") /\ analysisResult.frames = ScenarioScores
        /\ threshold = 4 /\ maxFrames = Undefined) =>
        /\ minFrameDistance = 1 => selectedIndices = << 1, 3 >>
        /\ minFrameDistance = 3 => selectedIndices = << 1 >>

\* the scenario was run at distance 3
C4_Witness ==
    /\ Called("threshold") /\ analysisResult.frames = ScenarioScores
    /\ threshold = 4 /\ maxFrames = Undefined /\ minFrameDistance = 3
    /\ Len(selectedIndices) = 1

(* C5 as stated: threshold mode with max_frames = 0 returns the empty list *)
C5_Original ==
    (Called("threshold") /\ maxFrames = << 0 >>) => selectedIndices = << >>

(* C5 as amended: threshold mode with max_frames = 0 applies no limit; the
   result is every frame left by the threshold and distance steps, in index
   order, and is empty only when none is left *)
C5_ZeroIsNoLimit ==
    (Called("threshold") /\ maxFrames = << 0 >>) =>
        /\ Range(selectedIndices) = KeptPositions
        /\ Len(selectedIndices) = Cardinality(KeptPositions)
        /\ StrictlyIncreasing(selectedIndices)

\* max_frames is 0 and frames are returned
C5_Witness ==
    /\ Called("threshold") /\ maxFrames = << 0 >>
    /\ minFrameDistance > 1
    /\ Len(selectedIndices) >= 2

(* C6: threshold mode with max_frames = m >= 1: when more than m frames are
   kept, exactly m are returned, each selected frame beats each kept but
   unselected frame (higher score, or equal score and lower index), in ascending
   index order; when at most m are kept, all of them are returned *)
C6_MaxFrames ==
    (Called("threshold") /\ maxFrames # Undefined /\ maxFrames[1] >= 1) =>
        /\ StrictlyIncreasing(selectedIndices)
        /\ Range(selectedIndices) \subseteq KeptPositions
        /\ Cardinality(KeptPositions) > maxFrames[1] =>
              /\ Len(selectedIndices) = maxFrames[1]
              /\ \A s \in Range(selectedIndices) :
                    \A u \in KeptPositions \ Range(selectedIndices) :
                        \/ ScoreAt(s) > ScoreAt(u)
                        \/ ScoreAt(s) = ScoreAt(u) /\ s < u
        /\ Cardinality(KeptPositions) <= maxFrames[1] =>
              Range(selectedIndices) = KeptPositions

\* the limit cut the kept frames between two frames of equal score, and a
\* lower-scored kept frame precedes a selected one
C6_Witness ==
    /\ Called("threshold") /\ maxFrames # Undefined /\ maxFrames[1] >= 2
    /\ Cardinality(KeptPositions) > maxFrames[1]
    /\ \E s \in Range(selectedIndices) :
          \E u \in KeptPositions \ Range(selectedIndices) : ScoreAt(s) = ScoreAt(u)
    /\ \E s \in Range(selectedIndices) :
          \E u \in KeptPositions \ Range(selectedIndices) :
              u < s /\ ScoreAt(u) < ScoreAt(s)

(* C7: threshold mode: with the same scores, distance and maximum, no higher
   threshold selects more frames than the current one *)
C7_ThresholdMonotone ==
    Called("threshold") =>
        \A t2 \in Thresholds :
            t2 >= threshold =>
                Len(ThresholdCase(analysisResult.frames, t2, minFrameDistance, maxFrames))
                    <= Len(selectedIndices)

\* the distance scan dropped a candidate, and a higher threshold, which removes
\* candidates other than the dropped ones, selects strictly fewer frames
C7_Witness ==
    /\ Called("threshold") /\ minFrameDistance > 1
    /\ KeptPositions # CandidatePositions
    /\ \E t2 \in Thresholds :
          /\ t2 > threshold
          /\ \E i \in KeptPositions : ScoreAt(i) < t2
          /\ \E i \in CandidatePositions \ KeptPositions : ScoreAt(i) >= t2
          /\ Len(ThresholdCase(analysisResult.frames, t2, minFrameDistance, maxFrames)) >= 1
          /\ Len(ThresholdCase(analysisResult.frames, t2, minFrameDistance, maxFrames))
                < Len(selectedIndices)

(* C8: threshold mode: at min_distance = 1 the result is the one obtained
   without the distance step, and the distance scan run at distance 1 drops
   no candidate *)
C8_DistanceOneNoOp ==
    (Called("threshold") /\ minFrameDistance = 1) =>
        /\ selectedIndices =
              MaxFramesLimit(FramesAboveThreshold(analysisResult.frames, threshold),
                             maxFrames)
        /\ selectedIndices =
              MaxFramesLimit(MinDistanceFilter(
                                 FramesAboveThreshold(analysisResult.frames, threshold),
                                 1),
                             maxFrames)
        /\ ~Truthy(maxFrames) => Range(selectedIndices) = CandidatePositions

\* distance 1 with adjacent candidates, all of them returned
C8_Witness ==
    /\ Called("threshold") /\ minFrameDistance = 1 /\ maxFrames = Undefined
    /\ \E i \in CandidatePositions : i + 1 \in CandidatePositions
    /\ CandidatePositions # 0..(NumFrames - 1)
    /\ Range(selectedIndices) = CandidatePositions

-----------------------------------------------------------------------------
(* Batch windows, as the specification describes them *)

BatchStride == selectionSettings.batchSize + selectionSettings.batchBuffer

\* the first positions of the windows: 0, s, 2s, ... below the sequence length
WindowStarts == {w \in 0..(NumFrames - 1) : w % BatchStride = 0}

\* the positions of the window starting at w, cut at the end of the sequence
Window(w) == w..(Min(w + selectionSettings.batchSize, NumFrames) - 1)

\* the earliest position of the maximum score of a set of positions
EarliestMax(W) ==
    CHOOSE p \in W : \A q \in W : ScoreAt(q) < ScoreAt(p) \/ (ScoreAt(q) = ScoreAt(p) /\ p <= q)

(* C9: batch mode: the windows start at 0, s, 2s, ... (s = batch_size +
   batch_buffer) and cover batch_size positions (the last one cut at the
   end); the positions between windows are never selected; each window
   contributes exactly the earliest position of its maximum score *)
C9_BatchWindows ==
    Called("batch") =>
        /\ Range(selectedIndices) = {EarliestMax(Window(w)) : w \in WindowStarts}
        /\ Len(selectedIndices) = Cardinality(WindowStarts)
        /\ \A p \in Range(selectedIndices) : p % BatchStride < selectionSettings.batchSize
        /\ \A w \in WindowStarts :
              Cardinality(Range(selectedIndices) \cap Window(w)) = 1

\* two windows, the last one cut short, a buffer position holding a score above
\* every selected score, and a tied maximum inside a window
C9_Witness ==
    /\ Called("batch")
    /\ selectionSettings.batchBuffer >= 1
    /\ Cardinality(WindowStarts) >= 2
    /\ \E w \in WindowStarts : w + selectionSettings.batchSize > NumFrames
    /\ \E b \in 0..(NumFrames - 1) :
          /\ b % BatchStride >= selectionSettings.batchSize
          /\ \A p \in Range(selectedIndices) : ScoreAt(b) > ScoreAt(p)
    /\ \E w \in WindowStarts :
          \E q \in Window(w) : q # EarliestMax(Window(w))
                               /\ ScoreAt(q) = ScoreAt(EarliestMax(Window(w)))

\* the selected list holds exactly one position of maximum score from each of
\* the given windows, in window order
OnePickPerWindow(windows) ==
    /\ Len(selectedIndices) = Len(windows)
    /\ \A k \in 1..Len(windows) :
          /\ selectedIndices[k] \in windows[k]
          /\ \A q \in windows[k] : ScoreAt(q) <= ScoreAt(selectedIndices[k])

(* C10 as stated: batch_size 3 and batch_buffer 1 over positions 0-9: the
   windows are [0-2], [4-6], [7-9], with one pick per window, its maximum *)
C10_Original ==
    (Called("batch") /\ NumFrames = 10 /\ selectionSettings.batchSize = 3
        /\ selectionSettings.batchBuffer = 1) =>
        OnePickPerWindow(<< 0..2, 4..6, 7..9 >>)

(* C10 as amended: batch_size 3 and batch_buffer 1 over positions 0-9: the
   windows are [0-2], [4-6], [8-9] (positions 3 and 7 are buffer), with
   exactly 3 picks, one per window, each a position of that window's maximum *)
C10_Batch10 ==
    (Called("batch") /\ NumFrames = 10 /\ selectionSettings.batchSize = 3
        /\ selectionSettings.batchBuffer = 1) =>
        /\ OnePickPerWindow(<< 0..2, 4..6, 8..9 >>)
        /\ 3 \notin Range(selectedIndices)
        /\ 7 \notin Range(selectedIndices)

\* ten frames where position 7 outscores positions 8 and 9
C10_Witness ==
    /\ Called("batch") /\ NumFrames = 10 /\ selectionSettings.batchSize = 3
    /\ selectionSettings.batchBuffer = 1
    /\ ScoreAt(7) > ScoreAt(8) /\ ScoreAt(7) > ScoreAt(9)
    /\ Len(selectedIndices) = 3

-----------------------------------------------------------------------------
(* C11 as stated: batch mode with batch_buffer = 0: each window contributes at
   most one selected index and consecutive selected indices are at least
   batch_size apart *)
C11_Original ==
    (Called("batch") /\ selectionSettings.batchBuffer = 0) =>
        /\ \A w \in WindowStarts :
              Cardinality(Range(selectedIndices) \cap Window(w)) <= 1
        /\ \A j \in 1..(Len(selectedIndices) - 1) :
              selectedIndices[j + 1] - selectedIndices[j] >= selectionSettings.batchSize

(* C11 as amended: batch mode with batch_buffer = 0: each window contributes
   exactly one selected index, the j-th selected index lies in the j-th window,
   and consecutive selected indices differ by at least 1 and at most
   2 * batch_size - 1 *)
C11_BatchNoBuffer ==
    (Called("batch") /\ selectionSettings.batchBuffer = 0) =>
        /\ \A w \in WindowStarts :
              Cardinality(Range(selectedIndices) \cap Window(w)) = 1
        /\ \A j \in 1..Len(selectedIndices) :
              selectedIndices[j] \in Window((j - 1) * selectionSettings.batchSize)
        /\ \A j \in 1..(Len(selectedIndices) - 1) :
              /\ selectedIndices[j + 1] - selectedIndices[j] >= 1
              /\ selectedIndices[j + 1] - selectedIndices[j]
                    <= 2 * selectionSettings.batchSize - 1

\* no buffer, and two neighbouring positions selected from adjacent windows
C11_Witness ==
    /\ Called("batch") /\ selectionSettings.batchBuffer = 0
    /\ \E j \in 1..(Len(selectedIndices) - 1) :
          selectedIndices[j + 1] - selectedIndices[j] = 1

\* the number of positions that come before position i when the frames are
\* ordered by descending score and, for equal scores, ascending position
Rank(i) ==
    Cardinality({j \in 0..(NumFrames - 1) :
                    \/ ScoreAt(j) > ScoreAt(i)
                    \/ ScoreAt(j) = ScoreAt(i) /\ j < i})

(* C12: bestN mode with n >= 1 over N frames returns, in ascending position
   order, the first min(n, N) positions of the ordering by descending score
   and ascending position; with n >= N that is every position *)
C12_BestN ==
    (Called("bestN") /\ selectionSettings.bestN >= 1) =>
        /\ StrictlyIncreasing(selectedIndices)
        /\ Len(selectedIndices) = Min(selectionSettings.bestN, NumFrames)
        /\ Range(selectedIndices) =
              {i \in 0..(NumFrames - 1) : Rank(i) < selectionSettings.bestN}
        /\ selectionSettings.bestN >= NumFrames =>
              Range(selectedIndices) = 0..(NumFrames - 1)

\* n cuts between two frames of equal score, and the selection is not a prefix
C12_Witness ==
    /\ Called("bestN") /\ selectionSettings.bestN < NumFrames
    /\ \E i \in Range(selectedIndices) :
          \E u \in (0..(NumFrames - 1)) \ Range(selectedIndices) :
              ScoreAt(i) = ScoreAt(u)
    /\ \E i \in Range(selectedIndices) :
          \E u \in (0..(NumFrames - 1)) \ Range(selectedIndices) : u < i

\* the least integer c with c >= length * percentage / 100
CeilPercent(length, percentage) ==
    CHOOSE c \in 0..length :
        /\ 100 * c >= length * percentage
        /\ 100 * (c - 1) < length * percentage

(* C13: topPercentage mode with percentage p in 1..100 over N frames returns
   the bestN result for n = ceil(N * p / 100); it has exactly that many
   indices, never more than N *)
C13_TopPercentage ==
    (Called("topPercentage") /\ selectionSettings.topPercentage \in 1..100) =>
        /\ selectedIndices =
              BestNCase(analysisResult.frames,
                        CeilPercent(NumFrames, selectionSettings.topPercentage))
        /\ Len(selectedIndices) = CeilPercent(NumFrames, selectionSettings.topPercentage)
        /\ Range(selectedIndices) =
              {i \in 0..(NumFrames - 1) :
                  Rank(i) < CeilPercent(NumFrames, selectionSettings.topPercentage)}
        /\ Len(selectedIndices) <= NumFrames

\* the percentage of the frame count is fractional and rounds up to a count
\* strictly between 1 and the number of frames
C13_Witness ==
    /\ Called("topPercentage")
    /\ (NumFrames * selectionSettings.topPercentage) % 100 # 0
    /\ Len(selectedIndices) > 1
    /\ Len(selectedIndices) < NumFrames
    /\ 100 * Len(selectedIndices) > NumFrames * selectionSettings.topPercentage

C14_Manual ==
    selectionMode = "manual" =>
        /\ Range(selectedIndices) = manuallySelectedFrames
        /\ StrictlyIncreasing(selectedIndices)
        /\ Len(selectedIndices) = Cardinality(manuallySelectedFrames)
        /\ SelectFrom(analysisResult, "manual", selectionSettings, threshold,
                      minFrameDistance, maxFrames, Range(selectedIndices)) = selectedIndices
        /\ Range(selectedIndices) = oddToggles

\* two positions are selected by hand and the previewed one has just been
\* toggled in
C14_Witness ==
    /\ selectionMode = "manual"
    /\ Len(selectedIndices) >= 2
    /\ previewFrame # Undefined
    /\ previewFrame[1] \in oddToggles

(* C17: at most one analyze_video invocation is in flight at any time,
   whatever the user did since it was issued *)
C17_OneAnalysisRunning ==
    Len(analysisCalls) <= 1

\* the video was removed and another one loaded while analyze_video is in
\* flight: the Analyze button's other conditions hold again
C17_Witness ==
    /\ Len(analysisCalls) = 1
    /\ analysisCalls[1].abandoned
    /\ videoPath # ""
    /\ videoPath # analysisCalls[1].videoPath
    /\ analysisResult = Null

\* a step in which analyze_video resolves with a result
AnalysisSucceedsStep ==
    \E k \in 1..Len(analysisCalls), result \in SessionResults,
       suggested \in SuggestedThresholds : AnalysisSucceeds(k, result, suggested)

\* a step in which analyze_video rejects
AnalysisFailsStep == \E k \in 1..Len(analysisCalls) : AnalysisFails(k)

(* C18: analysisResult only ever changes to null or, in the step in which
   analyze_video resolves, to the value it returned; when analyze_video rejects
   analysisResult is null afterwards; and while analysisResult is null no
   activation of exportFrames gets past its guard, so none is added to the
   activations that lead to an export_frames invocation *)
C18_PublishedOnSuccess ==
    [][/\ analysisResult' # analysisResult =>
             \/ analysisResult' = Null
             \/ AnalysisSucceedsStep /\ analysisResult' \in SessionResults
       /\ AnalysisFailsStep => analysisResult' = Null /\ analysisResult = Null
       /\ analysisResult = Null => Len(exportCalls') <= Len(exportCalls)
      ]_vars

\* analyze_video has just rejected for the loaded video: no result, the
\* Analyze button is back
C18_Witness ==
    /\ lastOutcome = "failed"
    /\ videoPath # ""
    /\ analysisResult = Null
    /\ ~analyzing
    /\ exportCalls = << >>

(* C19: once the user has abandoned a running analysis (the video was removed
   or the session reset while analyze_video was in flight), no result of that
   run is published *)
C19_AbandonedRunNeverPublished ==
    analysisResult # Null => ~resultOrigin.abandoned

\* the request an activation of exportFrames is bound to is the frame at each
\* selected position, in the order of the selected list
RequestsSelected(call) ==
    /\ Len(call.frames) = Len(selectedIndices)
    /\ \A k \in 1..Len(selectedIndices) :
          /\ selectedIndices[k] \in 0..(NumFrames - 1)
          /\ call.frames[k] = [position |-> selectedIndices[k],
                               sharpness |-> ScoreAt(selectedIndices[k])]
    /\ \A j \in 1..(Len(call.frames) - 1) :
          call.frames[j].position < call.frames[j + 1].position

NeutralOptions(call) ==
    /\ call.options.threshold = 0
    /\ call.options.min_frame_distance = 1
    /\ call.options.max_frames = Undefined

(* C20: an activation of exportFrames asks for the frames at exactly the
   positions getSelectedFrameIndices returns to it, each once and in ascending
   order of position, with the options threshold 0, min_frame_distance 1 and
   no max_frames; the export_frames invocation passes that request on as it is *)
C20_ExportSelected ==
    [][/\ Len(exportCalls') > Len(exportCalls) =>
             /\ RequestsSelected(exportCalls'[Len(exportCalls')])
             /\ NeutralOptions(exportCalls'[Len(exportCalls')])
       /\ Len(exportCalls') = Len(exportCalls) =>
             \A k \in 1..Len(exportCalls) :
                 /\ exportCalls'[k].frames = exportCalls[k].frames
                 /\ exportCalls'[k].options = exportCalls[k].options
      ]_vars

\* export_frames has been invoked for the second of two frames only
C20_Witness ==
    /\ analysisResult # Null
    /\ NumFrames = 2
    /\ selectedIndices = << 1 >>
    /\ \E k \in 1..Len(exportCalls) :
          /\ exportCalls[k].at = "export_frames"
          /\ RequestsSelected(exportCalls[k])

(* C30: in threshold mode, for minFrameDistance >= 1 and maxFrames unset or a
   non-negative integer, the number the threshold-only getSelectedFrameCount
   returns is the length of the list getSelectedFrameIndices returns *)
C30_CountsAgree ==
    (Called("threshold") /\ minFrameDistance >= 1
        /\ (maxFrames = Undefined \/ maxFrames[1] >= 0)) =>
        ThresholdOnlyFrameCount(analysisResult.frames, threshold, minFrameDistance,
                                maxFrames) = Len(selectedIndices)

\* minFrameDistance is 1, so only the earlier version runs the distance loop;
\* two adjacent frames are selected and the limit has cut the list
C30_Witness ==
    /\ Called("threshold")
    /\ minFrameDistance = 1
    /\ Truthy(maxFrames)
    /\ Len(selectedIndices) = maxFrames[1]
    /\ Cardinality(CandidatePositions) > maxFrames[1]
    /\ \E j \in 1..(Len(selectedIndices) - 1) : selectedIndices[j + 1] = selectedIndices[j] + 1

\* the least integer c with c * d >= n
CeilDiv(n, d) == CHOOSE c \in 0..n : c * d >= n /\ (c - 1) * d < n

(* C29: for every sequence length N >= 0, batch_size >= 1 and batch_buffer >= 0
   the batch loop ends, and the list it returns has exactly
   ceil(N / (batch_size + batch_buffer)) indices, none for an empty sequence *)
C29_BatchLoopTerminates ==
    <>[](/\ pc = "done"
         /\ Len(selectedIndices) = CeilDiv(NumFrames, BatchStride)
         /\ (NumFrames = 0 => selectedIndices = << >>))

\* the loop has ended after more than one pass, the last window cut short by
\* the end of the sequence
C29_Witness ==
    /\ pc = "done"
    /\ selectionMode = "batch"
    /\ selectionSettings.batchSize = 1
    /\ selectionSettings.batchBuffer > 0
    /\ Len(selectedIndices) >= 2
    /\ NumFrames % BatchStride # 0
    /\ loopIndex > NumFrames

\* the list the loop builds pass by pass is the list of the batch case
BatchLoopAgrees ==
    (pc = "done" /\ loopIndex > 0) =>
        selectedIndices = BatchCase(analysisResult.frames, selectionSettings.batchSize,
                                    selectionSettings.batchBuffer)

(* C28: after any edits of the Number of Frames field bestN is at least 1, and
   the bestN selection returns at least min(1, N) frames *)
C28_BestNPositive ==
    selectionMode = "bestN" =>
        /\ selectionSettings.bestN >= 1
        /\ analysisResult # Null => Len(selectedIndices) >= Min(1, NumFrames)

(* C22: a result that is present was produced by analysing the video that is
   loaded now, and there is no result while no video is loaded *)
C22_ResultOfCurrentVideo ==
    /\ analysisResult # Null => videoPath # "" /\ resultOrigin.videoPath = videoPath
    /\ videoPath = "" => analysisResult = Null

(* C24: while a result is present, the previewed position, if any, and every
   manually selected position is a position of that result's frames *)
C24_IndicesInRange ==
    analysisResult # Null =>
        /\ previewFrame # Undefined => previewFrame[1] \in 0..(NumFrames - 1)
        /\ manuallySelectedFrames \subseteq 0..(NumFrames - 1)

(* C23: once analyzeVideo has set analyzing, analyzing becomes false again,
   provided the backend answers the invocation *)
C23_AnalysisEnds ==
    analyzing ~> ~analyzing

\* analyze_video was answered with a rejection after the video had been
\* removed: the run has ended all the same
C23_Witness ==
    /\ lastOutcome = "failed"
    /\ ~analyzing
    /\ videoPath = ""
    /\ analysisCalls = << >>

(* C25: at most one activation of exportFrames (its directory dialog or its
   export_frames invocation) is unfinished at any time *)
C25_OneExportInFlight ==
    Len(exportCalls) <= 1

\* the analyze_video invocation this step issues, if it issues one
AnalyzeVideoInvoked ==
    Len(analysisCalls') = Len(analysisCalls) + 1

NewAnalysisCall == analysisCalls'[Len(analysisCalls')]

(* C21: an analyze_video invocation issued while the full video is selected
   (startTime = 0 and endTime = the video duration) carries a null start
   time and a null end time *)
C21_FullVideoPassesNull ==
    [][(AnalyzeVideoInvoked /\ startTime = 0 /\ endTime = videoDuration)
          => /\ NewAnalysisCall.startTime = Undefined
             /\ NewAnalysisCall.endTime = Undefined]_vars

(* C26: an analyze_video invocation that carries a time range carries one
   that is valid for the video it analyses: 0 <= start < end <= duration of
   the loaded video *)
C26_RangeValidForVideo ==
    [][(AnalyzeVideoInvoked /\ NewAnalysisCall.startTime # Undefined)
          => /\ NewAnalysisCall.endTime # Undefined
             /\ 0 <= NewAnalysisCall.startTime[1]
             /\ NewAnalysisCall.startTime[1] < NewAnalysisCall.endTime[1]
             /\ NewAnalysisCall.endTime[1] <= DurationOf(NewAnalysisCall.videoPath)]_vars

\* a path save_settings received passed validate_ffmpeg_path
SavedPathValid(saved) == saved = Undefined \/ ValidateFfmpegPath(saved[1])

(* C27: in the settings dialog, while ffmpegValid (resp. ffprobeValid) is
   true the path field holds the path that was last validated or detected,
   and in first-run mode save_settings never receives a path that does not
   pass validation *)
C27_ValidFlagDescribesPath ==
    /\ FlagSet(ffmpegValid) => << ffmpegPath >> = ffmpegChecked
    /\ FlagSet(ffprobeValid) => << ffprobePath >> = ffprobeChecked
    /\ IF isFirstRun /\ savedSettings # Null
       THEN SavedPathValid(savedSettings.ffmpeg_path)
               /\ SavedPathValid(savedSettings.ffprobe_path)
       ELSE TRUE

=============================================================================
